---- MODULE Spec2Model ----
(***************************************************************************)
(* Joint-state synchronisation and motion interpolation of the robot       *)
(* control front end (frontend/src/App.js): the WebSocket connection with  *)
(* its reconnect timer, the jointAngles/targetAngles state, the move and   *)
(* reset commands with their completion timer and interpolation interval.  *)
(*                                                                         *)
(* One action is one task of the browser's event loop: a UI event handler, *)
(* a timer callback or a WebSocket event with the handlers it runs.        *)
(***************************************************************************)
EXTENDS Integers, Sequences, FiniteSets, TLC

(***************************************************************************)
(* Bounds of the model.                                                    *)
(***************************************************************************)
NumJoints == 2          \* joints modelled (a prefix of the jointLimits table)
MaxSockets == 2         \* WebSocket objects created in one run
MaxInputs == 2          \* inputs in one run: commands, target edits, frames received
Window == 1             \* an event other than a tick falls within this many ticks
                        \* of the start or of the end of every pending interval

(***************************************************************************)
(* Program constants.                                                      *)
(***************************************************************************)
steps == 30             \* const steps = 30

jointLimits ==
  << [min |-> -170, max |-> 170], [min |-> -120, max |-> 120],
     [min |-> -170, max |-> 170], [min |-> -120, max |-> 120],
     [min |-> -170, max |-> 170], [min |-> -120, max |-> 120],
     [min |-> -175, max |-> 175] >>

Joints == 1..NumJoints

(***************************************************************************)
(* Numbers.  The angles are JavaScript numbers; the interpolation divides  *)
(* by steps on every tick, so an angle is kept exactly, as a fixed-point   *)
(* numeral whose radix is a power of steps: ip + fr[1]/Radix +             *)
(* fr[2]/Radix^2 + ..., with ip the floor of the value and no trailing     *)
(* zero digit in fr.  Rounding of IEEE doubles is not modelled.            *)
(***************************************************************************)
Radix == steps * steps * steps

RECURSIVE Strip(_)
Strip(f) ==
  IF f = <<>> THEN <<>>
  ELSE IF f[Len(f)] = 0 THEN Strip(SubSeq(f, 1, Len(f) - 1)) ELSE f

Num(n) == [ip |-> n, fr |-> <<>>]

Pad(f, n) == [j \in 1..n |-> IF j <= Len(f) THEN f[j] ELSE 0]

RECURSIVE AddFr(_, _, _, _, _)
AddFr(a, b, i, carry, acc) ==
  IF i = 0 THEN [carry |-> carry, fr |-> acc]
  ELSE LET d == a[i] + b[i] + carry
       IN  AddFr(a, b, i - 1, d \div Radix, <<d % Radix>> \o acc)

NumAdd(a, b) ==
  LET n == IF Len(a.fr) >= Len(b.fr) THEN Len(a.fr) ELSE Len(b.fr)
      r == AddFr(Pad(a.fr, n), Pad(b.fr, n), n, 0, <<>>)
  IN  [ip |-> a.ip + b.ip + r.carry, fr |-> Strip(r.fr)]

RECURSIVE MulFr(_, _, _, _, _)
MulFr(a, k, i, carry, acc) ==
  IF i = 0 THEN [carry |-> carry, fr |-> acc]
  ELSE LET d == a[i] * k + carry
       IN  MulFr(a, k, i - 1, d \div Radix, <<d % Radix>> \o acc)

\* a times the integer k
NumMulInt(a, k) ==
  LET r == MulFr(a.fr, k, Len(a.fr), 0, <<>>)
  IN  [ip |-> a.ip * k + r.carry, fr |-> Strip(r.fr)]

\* a divided by Radix
NumShift(a) ==
  [ip |-> a.ip \div Radix, fr |-> Strip(<<a.ip % Radix>> \o a.fr)]

NumSub(a, b) == NumAdd(a, NumMulInt(b, -1))

RECURSIVE MulTail(_, _, _)
MulTail(a, f, j) ==
  IF j > Len(f) THEN Num(0)
  ELSE NumShift(NumAdd(NumMulInt(a, f[j]), MulTail(a, f, j + 1)))

NumMul(a, b) == NumAdd(NumMulInt(a, b.ip), MulTail(a, b.fr, 1))

\* a divided by steps
NumDivSteps(a) == NumShift(NumMulInt(a, Radix \div steps))

\* a mutant of StepFraction: the fraction of the step before
StepFractionLate(currentStep) == NumDivSteps(Num(currentStep - 1))

\* currentStep / steps
StepFraction(currentStep) == NumDivSteps(Num(currentStep))


(***************************************************************************)
(* Text conversions.  A string (a slider's value, a WebSocket frame) is a  *)
(* tuple: a slider value is the tuple of its characters, a frame is        *)
(* <<"json", value>> when it is the JSON text of value and <<"text", s>>   *)
(* when it is not JSON at all.                                             *)
(***************************************************************************)
DigitValue ==
  [c \in {"0", "1", "2", "3", "4", "5", "6", "7", "8", "9"} |->
     CASE c = "0" -> 0 [] c = "1" -> 1 [] c = "2" -> 2 [] c = "3" -> 3
       [] c = "4" -> 4 [] c = "5" -> 5 [] c = "6" -> 6 [] c = "7" -> 7
       [] c = "8" -> 8 [] c = "9" -> 9]

RECURSIVE ParseDigits(_, _, _)
ParseDigits(str, i, acc) ==
  IF i > Len(str) \/ str[i] \notin DOMAIN DigitValue THEN acc
  ELSE ParseDigits(str, i + 1, acc * 10 + DigitValue[str[i]])

\* parseFloat on an integer literal: an optional sign, then the digits up to
\* the first character that is no digit
parseFloat(str) ==
  IF str /= <<>> /\ str[1] = "-" THEN Num(0 - ParseDigits(str, 2, 0))
  ELSE Num(ParseDigits(str, 1, 0))

JSONstringify(value) == <<"json", value>>

SyntaxError == [error |-> "SyntaxError"]

\* JSON.parse: the value, or SyntaxError where JSON.parse throws
JSONparse(text) == IF text[1] = "json" THEN text[2] ELSE SyntaxError

(***************************************************************************)
(* Inputs.                                                                 *)
(***************************************************************************)
\* values a slider event may carry: one below every range, one above
SliderValues == { <<"-", "2", "0", "0">>, <<"2", "0", "0">> }

\* the four quick positions, cut to the joints modelled
QuickPositions ==
  { [j \in Joints |-> Num(p[j])] :
      p \in { <<0, 45, 0, -45, 0, 45, 0>>, <<90, -30, 45, 60, -45, -30, 90>>,
              <<-90, 60, -30, -90, 90, 60, -90>>, <<0, 90, 0, -90, 0, 90, 0>> } }

\* frames the backend may deliver: a full joint_state, a joint_state whose
\* angles are one short, a message of another type, and text that is no JSON
BackendFrames ==
  { JSONstringify([type |-> "joint_state", angles |-> [j \in Joints |-> Num(10 * j)]]),
    JSONstringify([type |-> "joint_state",
                   angles |-> [j \in 1..(NumJoints - 1) |-> Num(10 * j)]]),
    JSONstringify([type |-> "pong"]),
    <<"text", "oops">> }

homePosition == [j \in Joints |-> Num(0)]

(***************************************************************************)
(* State.                                                                  *)
(***************************************************************************)
VARIABLES
  jointAngles,       \* useState: the current angles
  targetAngles,      \* useState: the target angles
  isMoving,          \* useState
  isConnected,       \* useState
  mounted,           \* the component is mounted (the effect's cleanup has not run)
  ws,                \* the effect's variable ws: a socket id, 0 for null
  wsRef,             \* wsRef.current: a socket id, 0 for null
  reconnectTimeout,  \* the effect's variable reconnectTimeout: a timer id, 0 for null
  sockets,           \* the WebSocket objects created so far, by id
  retryTimers,       \* ids of the reconnect timeouts that are pending
  timerIds,          \* number of reconnect timeouts created so far
  timeouts,          \* number of pending 1000 ms completion timeouts
  intervals,         \* the pending 33 ms interpolation intervals, each with the
                     \* variables of its closure, in the order they come due
  uiBypassed,        \* a handler ran while the control bound to it was disabled
  nInputs,           \* inputs so far
  robotParts,        \* robotPartsRef.current: the meshes of the arm, by index
  last               \* the step that led to this state: its operation, its
                     \* argument and the program's state before it, and the
                     \* command (moveToTarget, resetRobot) issued last

reactVars == <<jointAngles, targetAngles, isMoving, isConnected>>
connVars == <<ws, wsRef, reconnectTimeout, sockets, retryTimers, timerIds>>
vars == <<reactVars, mounted, connVars, timeouts, intervals, uiBypassed, nInputs,
          robotParts, last>>

\* a state setter called after the component was unmounted changes nothing
Set(old, new) == IF mounted THEN new ELSE old

NewSocket == [readyState |-> "CONNECTING", onclose |-> TRUE, sent |-> <<>>]

\* socket.send(frame): transmitted when the socket is OPEN, otherwise not
Send(socks, id, frame) ==
  IF socks[id].readyState = "OPEN"
  THEN [socks EXCEPT ![id].sent = Append(@, frame)]
  ELSE socks

Snapshot ==
  [jointAngles |-> jointAngles, targetAngles |-> targetAngles,
   isMoving |-> isMoving, isConnected |-> isConnected, mounted |-> mounted,
   ws |-> ws, wsRef |-> wsRef, reconnectTimeout |-> reconnectTimeout,
   sockets |-> sockets, retryTimers |-> retryTimers, timerIds |-> timerIds,
   timeouts |-> timeouts, intervals |-> intervals, robotParts |-> robotParts]

\* the record of the step taken: the operation, its argument, the state
\* before it, the command issued last, and whether the target has been
\* edited during the move in progress (edited after the step, wasEdited
\* before it), and whether a command has ever been issued while isMoving
Record(op, arg) ==
  last' = [op |-> op, arg |-> arg, pre |-> Snapshot,
           command |-> IF op \in {"moveToTarget", "resetRobot"} THEN op
                       ELSE last.command,
           wasEdited |-> last.edited,
           edited |-> /\ isMoving
                      /\ isMoving'
                      /\ \/ op \in {"handleJointChange", "quickPosition"}
                         \/ last.edited,
           reentered |-> \/ last.reentered
                         \/ op \in {"moveToTarget", "resetRobot"} /\ isMoving]

\* a step of a handler of the connection or of the commands: none of them
\* touches robotPartsRef
Step(op, arg) ==
  /\ Record(op, arg)
  /\ UNCHANGED robotParts

(***************************************************************************)
(* The connection (App.js, the WebSocket effect).                          *)
(***************************************************************************)
\* connectWebSocket(): new WebSocket(...) either throws, and the catch block
\* runs, or returns a socket that is CONNECTING, with its handlers set
connectWebSocket(throws) ==
  IF throws
  THEN /\ isConnected' = Set(isConnected, FALSE)
       /\ UNCHANGED <<ws, wsRef, sockets>>
  ELSE /\ Len(sockets) < MaxSockets
       /\ sockets' = Append(sockets, NewSocket)
       /\ ws' = Len(sockets) + 1
       /\ wsRef' = Len(sockets) + 1
       /\ UNCHANGED isConnected

\* a mutant of WsOnOpen: a move asked for while offline is sent on open
WsOnOpenFlush(opened) ==
  /\ isConnected' = Set(isConnected, TRUE)
  /\ sockets' =
       LET greeted == Send(opened, ws, JSONstringify([type |-> "get_state"]))
       IN  IF isMoving
           THEN Send(greeted, ws, JSONstringify([type |-> "move", angles |-> targetAngles]))
           ELSE greeted

\* a mutant of WsOnOpen: onopen connects once more
WsOnOpenAgain(opened) ==
  /\ isConnected' = Set(isConnected, TRUE)
  /\ sockets' =
       LET greeted == Send(opened, ws, JSONstringify([type |-> "get_state"]))
       IN  IF Len(greeted) < MaxSockets THEN Append(greeted, NewSocket) ELSE greeted

\* a mutant of WsOnOpen: get_state is sent twice
WsOnOpenTwice(opened) ==
  /\ isConnected' = Set(isConnected, TRUE)
  /\ sockets' =
       Send(Send(opened, ws, JSONstringify([type |-> "get_state"])),
            ws, JSONstringify([type |-> "get_state"]))

\* a mutant of WsOnOpen: onopen sets the flag and sends nothing
WsOnOpenSilent(opened) ==
  /\ isConnected' = Set(isConnected, TRUE)
  /\ sockets' = opened

\* ws.onopen: the flag, then get_state on the effect's ws
WsOnOpen(opened) ==
  /\ isConnected' = Set(isConnected, TRUE)
  /\ sockets' = Send(opened, ws, JSONstringify([type |-> "get_state"]))

\* a mutant of WsOnMessage: a joint_state is ignored while moving
WsOnMessageIdle(frame) ==
  LET data == JSONparse(frame)
  IN  IF data /= SyntaxError /\ data.type = "joint_state" /\ ~isMoving
      THEN jointAngles' = Set(jointAngles, data.angles)
      ELSE UNCHANGED jointAngles

\* a mutant of WsOnMessage: text that is no JSON resets the angles
WsOnMessageReset(frame) ==
  LET data == JSONparse(frame)
  IN  IF data = SyntaxError
      THEN jointAngles' = Set(jointAngles, homePosition)
      ELSE IF data.type = "joint_state"
           THEN jointAngles' = Set(jointAngles, data.angles)
           ELSE UNCHANGED jointAngles

\* ws.onmessage
WsOnMessage(frame) ==
  LET data == JSONparse(frame)
  IN  IF data /= SyntaxError /\ data.type = "joint_state"
      THEN jointAngles' = Set(jointAngles, data.angles)
      ELSE UNCHANGED jointAngles

\* ws.onerror
WsOnError == isConnected' = Set(isConnected, FALSE)

\* a mutant of WsOnClose: the reconnect is scheduled twice
WsOnCloseTwice ==
  /\ isConnected' = Set(isConnected, FALSE)
  /\ timerIds' = timerIds + 2
  /\ reconnectTimeout' = timerIds + 2
  /\ retryTimers' = (retryTimers \ {reconnectTimeout}) \cup {timerIds + 1, timerIds + 2}

\* ws.onclose: clears the timeout it remembers and sets a new one
WsOnClose ==
  /\ isConnected' = Set(isConnected, FALSE)
  /\ timerIds' = timerIds + 1
  /\ reconnectTimeout' = timerIds + 1
  /\ retryTimers' = (retryTimers \ {reconnectTimeout}) \cup {timerIds + 1}

\* the close event of a socket whose onclose is null
NoOnClose == UNCHANGED <<reconnectTimeout, retryTimers, timerIds>>

\* the handshake of socket s succeeds: the open event
TransportOpen(s) ==
  /\ sockets[s].readyState = "CONNECTING"
  /\ WsOnOpen([sockets EXCEPT ![s].readyState = "OPEN"])
  /\ UNCHANGED <<jointAngles, targetAngles, isMoving, mounted, ws, wsRef,
                 reconnectTimeout, retryTimers, timerIds, timeouts, intervals,
                 uiBypassed, nInputs>>

\* a frame arrives on the open socket s: the message event
TransportMessage(s, frame) ==
  /\ sockets[s].readyState = "OPEN"
  /\ nInputs < MaxInputs
  /\ nInputs' = nInputs + 1
  /\ WsOnMessage(frame)
  /\ UNCHANGED <<targetAngles, isMoving, isConnected, mounted, connVars,
                 timeouts, intervals, uiBypassed>>

\* a mutant of TransportFail: the error handler also clears isMoving
TransportFailResets(s) ==
  /\ sockets[s].readyState /= "CLOSED"
  /\ sockets' = [sockets EXCEPT ![s].readyState = "CLOSED"]
  /\ WsOnError
  /\ isMoving' = Set(isMoving, FALSE)
  /\ IF sockets[s].onclose THEN WsOnClose ELSE NoOnClose
  /\ UNCHANGED <<jointAngles, targetAngles, mounted, ws, wsRef,
                 timeouts, intervals, uiBypassed, nInputs>>

\* the connection of socket s fails: the error event, then the close event
TransportFail(s) ==
  /\ sockets[s].readyState /= "CLOSED"
  /\ sockets' = [sockets EXCEPT ![s].readyState = "CLOSED"]
  /\ WsOnError
  /\ IF sockets[s].onclose THEN WsOnClose ELSE NoOnClose
  /\ UNCHANGED <<jointAngles, targetAngles, isMoving, mounted, ws, wsRef,
                 timeouts, intervals, uiBypassed, nInputs>>

\* the backend starts the closing handshake of the open socket s: the
\* browser sets readyState to CLOSING in a task of its own and fires no
\* event; the close event follows when the connection is closed
TransportClosing(s) ==
  /\ sockets[s].readyState = "OPEN"
  /\ sockets' = [sockets EXCEPT ![s].readyState = "CLOSING"]
  /\ UNCHANGED <<reactVars, mounted, ws, wsRef, reconnectTimeout, retryTimers,
                 timerIds, timeouts, intervals, uiBypassed, nInputs>>

\* the connection of socket s closes, at once or after a closing handshake
\* (started by the backend, or by close()): the close event alone
TransportClose(s) ==
  /\ sockets[s].readyState \in {"OPEN", "CLOSING"}
  /\ sockets' = [sockets EXCEPT ![s].readyState = "CLOSED"]
  /\ IF sockets[s].onclose THEN WsOnClose ELSE (NoOnClose /\ UNCHANGED isConnected)
  /\ UNCHANGED <<jointAngles, targetAngles, isMoving, mounted, ws, wsRef,
                 timeouts, intervals, uiBypassed, nInputs>>

\* a mutant of RetryTimerFire: the timer repeats (it stays pending)
RetryTimerRepeats(t) ==
  /\ t \in retryTimers
  /\ UNCHANGED retryTimers
  /\ \E throws \in BOOLEAN : connectWebSocket(throws)
  /\ UNCHANGED <<jointAngles, targetAngles, isMoving, mounted, reconnectTimeout,
                 timerIds, timeouts, intervals, uiBypassed, nInputs>>

\* the reconnect timeout t fires: connectWebSocket()
RetryTimerFire(t) ==
  /\ t \in retryTimers
  /\ retryTimers' = retryTimers \ {t}
  /\ \E throws \in BOOLEAN : connectWebSocket(throws)
  /\ UNCHANGED <<jointAngles, targetAngles, isMoving, mounted, reconnectTimeout,
                 timerIds, timeouts, intervals, uiBypassed, nInputs>>

\* a mutant of CloseQuietly: close() with onclose left in place
CloseLoudly(socks, id) ==
  IF id = 0 THEN socks
  ELSE [socks EXCEPT ![id].readyState =
                        IF @ \in {"CONNECTING", "OPEN"} THEN "CLOSING" ELSE @]

\* socket.onclose = null; socket.close()
CloseQuietly(socks, id) ==
  IF id = 0 THEN socks
  ELSE [socks EXCEPT ![id].onclose = FALSE,
                     ![id].readyState =
                        IF @ \in {"CONNECTING", "OPEN"} THEN "CLOSING" ELSE @]

\* the effect's cleanup, run when the component unmounts
Cleanup ==
  /\ mounted
  /\ mounted' = FALSE
  /\ retryTimers' = retryTimers \ {reconnectTimeout}
  /\ sockets' = CloseQuietly(CloseQuietly(sockets, ws), wsRef)
  /\ UNCHANGED <<reactVars, ws, wsRef, reconnectTimeout, timerIds, timeouts, intervals,
                 uiBypassed, nInputs>>

(***************************************************************************)
(* The commands and their timers (App.js, handleJointChange to resetRobot).*)
(***************************************************************************)
\* wsRef.current?.readyState === WebSocket.OPEN
SocketIsOpen == wsRef /= 0 /\ sockets[wsRef].readyState = "OPEN"

\* a mutant of Lerp: the step is taken from the home position, not from the
\* current angle
LerpFromHome(current, target, t) == NumMul(target, t)

\* current + (target - current) * t
Lerp(current, target, t) == NumAdd(current, NumMul(NumSub(target, current), t))

\* a mutant of handleJointChange: the new vector is built on the initial
\* angles (a stale closure), not on targetAngles
handleJointChangeStale(index, value) ==
  /\ mounted
  /\ nInputs < MaxInputs
  /\ nInputs' = nInputs + 1
  /\ uiBypassed' = (uiBypassed \/ isMoving)
  /\ targetAngles' = [homePosition EXCEPT ![index] = parseFloat(value)]
  /\ UNCHANGED <<jointAngles, isMoving, isConnected, mounted, connVars,
                 timeouts, intervals>>

\* handleJointChange(index, value)
handleJointChange(index, value) ==
  /\ mounted
  /\ nInputs < MaxInputs
  /\ nInputs' = nInputs + 1
  /\ uiBypassed' = (uiBypassed \/ isMoving)
  /\ targetAngles' = [targetAngles EXCEPT ![index] = parseFloat(value)]
  /\ UNCHANGED <<jointAngles, isMoving, isConnected, mounted, connVars,
                 timeouts, intervals>>

\* a quick-position button: setTargetAngles(position)
QuickPosition(position) ==
  /\ mounted
  /\ nInputs < MaxInputs
  /\ nInputs' = nInputs + 1
  /\ uiBypassed' = (uiBypassed \/ isMoving)
  /\ targetAngles' = position
  /\ UNCHANGED <<jointAngles, isMoving, isConnected, mounted, connVars,
                 timeouts, intervals>>

\* a mutant of SendMove: the message carries the current angles
SendMoveCurrent(angles) ==
  /\ isMoving' = TRUE
  /\ sockets' = Send(sockets, wsRef, JSONstringify([type |-> "move", angles |-> jointAngles]))
  /\ timeouts' = timeouts + 1

\* a mutant of SendMove: no completion timeout is armed
SendMoveNoTimeout(angles) ==
  /\ isMoving' = TRUE
  /\ sockets' = Send(sockets, wsRef, JSONstringify([type |-> "move", angles |-> angles]))
  /\ timeouts' = timeouts

\* the remote branch of moveToTarget and resetRobot: the flag, the move
\* message, the completion timeout
SendMove(angles) ==
  /\ isMoving' = TRUE
  /\ sockets' = Send(sockets, wsRef, JSONstringify([type |-> "move", angles |-> angles]))
  /\ timeouts' = timeouts + 1

\* the local branch of moveToTarget: the flag and the interval, whose
\* closure holds currentStep = 0 and the targetAngles of this render
StartInterval ==
  /\ isMoving' = TRUE
  /\ intervals' = Append(intervals, [currentStep |-> 0, targetAngles |-> targetAngles])

\* a mutant of moveToTarget: the local branch arms a completion timeout too
moveToTargetBoth ==
  /\ mounted
  /\ nInputs < MaxInputs
  /\ nInputs' = nInputs + 1
  /\ uiBypassed' = (uiBypassed \/ isMoving)
  /\ IF SocketIsOpen
     THEN SendMove(targetAngles) /\ UNCHANGED intervals
     ELSE StartInterval /\ timeouts' = timeouts + 1 /\ UNCHANGED sockets
  /\ UNCHANGED <<jointAngles, targetAngles, isConnected, mounted, ws, wsRef,
                 reconnectTimeout, retryTimers, timerIds>>

\* moveToTarget()
moveToTarget ==
  /\ mounted
  /\ nInputs < MaxInputs
  /\ nInputs' = nInputs + 1
  /\ uiBypassed' = (uiBypassed \/ isMoving)
  /\ IF SocketIsOpen
     THEN SendMove(targetAngles) /\ UNCHANGED intervals
     ELSE StartInterval /\ UNCHANGED <<sockets, timeouts>>
  /\ UNCHANGED <<jointAngles, targetAngles, isConnected, mounted, ws, wsRef,
                 reconnectTimeout, retryTimers, timerIds>>

\* a mutant of resetRobot: the target is reset in the offline branch only
resetRobotOffline ==
  /\ mounted
  /\ nInputs < MaxInputs
  /\ nInputs' = nInputs + 1
  /\ uiBypassed' = (uiBypassed \/ isMoving)
  /\ IF SocketIsOpen
     THEN SendMove(homePosition) /\ UNCHANGED <<jointAngles, targetAngles>>
     ELSE /\ jointAngles' = homePosition
          /\ targetAngles' = homePosition
          /\ UNCHANGED <<isMoving, sockets, timeouts>>
  /\ UNCHANGED <<isConnected, mounted, ws, wsRef, reconnectTimeout, retryTimers,
                 timerIds, intervals>>

\* a mutant of resetRobot: jointAngles are set to the home position on the
\* remote branch too
resetRobotSnaps ==
  /\ mounted
  /\ nInputs < MaxInputs
  /\ nInputs' = nInputs + 1
  /\ uiBypassed' = (uiBypassed \/ isMoving)
  /\ targetAngles' = homePosition
  /\ jointAngles' = homePosition
  /\ IF SocketIsOpen
     THEN SendMove(homePosition)
     ELSE UNCHANGED <<isMoving, sockets, timeouts>>
  /\ UNCHANGED <<isConnected, mounted, ws, wsRef, reconnectTimeout, retryTimers,
                 timerIds, intervals>>

\* resetRobot()
resetRobot ==
  /\ mounted
  /\ nInputs < MaxInputs
  /\ nInputs' = nInputs + 1
  /\ uiBypassed' = (uiBypassed \/ isMoving)
  /\ targetAngles' = homePosition
  /\ IF SocketIsOpen
     THEN SendMove(homePosition) /\ UNCHANGED jointAngles
     ELSE jointAngles' = homePosition /\ UNCHANGED <<isMoving, sockets, timeouts>>
  /\ UNCHANGED <<isConnected, mounted, ws, wsRef, reconnectTimeout, retryTimers,
                 timerIds, intervals>>

\* a mutant of CompletionTimeout: the flag is cleared only while the socket
\* is still OPEN
CompletionTimeoutOnline ==
  /\ timeouts > 0
  /\ timeouts' = timeouts - 1
  /\ isMoving' = IF SocketIsOpen THEN Set(isMoving, FALSE) ELSE isMoving
  /\ UNCHANGED <<jointAngles, targetAngles, isConnected, mounted, connVars,
                 intervals, uiBypassed, nInputs>>

\* a mutant of CompletionTimeout: the flag is cleared only once the angles
\* reported equal the target
CompletionTimeoutConfirmed ==
  /\ timeouts > 0
  /\ timeouts' = timeouts - 1
  /\ isMoving' = IF jointAngles = targetAngles THEN Set(isMoving, FALSE) ELSE isMoving
  /\ UNCHANGED <<jointAngles, targetAngles, isConnected, mounted, connVars,
                 intervals, uiBypassed, nInputs>>

\* the callback of a completion timeout
CompletionTimeout ==
  /\ timeouts > 0
  /\ timeouts' = timeouts - 1
  /\ isMoving' = Set(isMoving, FALSE)
  /\ UNCHANGED <<jointAngles, targetAngles, isConnected, mounted, connVars,
                 intervals, uiBypassed, nInputs>>

\* a mutant of IntervalDone: one tick too many
IntervalDoneLate(currentStep) == currentStep > steps

\* a mutant of IntervalDone: the interval also ends once the socket is OPEN
IntervalDoneOnline(currentStep) == currentStep >= steps \/ SocketIsOpen

\* currentStep >= steps
IntervalDone(currentStep) == currentStep >= steps

\* a mutant of IntervalTick: the tick steps toward the targetAngles of the
\* latest render, not toward those of its closure
IntervalTickLive ==
  /\ intervals /= <<>>
  /\ LET closure == Head(intervals)
         currentStep == closure.currentStep + 1
         t == StepFraction(currentStep)
     IN  /\ jointAngles' =
              Set(jointAngles,
                  [i \in DOMAIN jointAngles |->
                     Lerp(jointAngles[i], targetAngles[i], t)])
         /\ IF IntervalDone(currentStep)
            THEN /\ intervals' = Tail(intervals)
                 /\ isMoving' = Set(isMoving, FALSE)
            ELSE /\ intervals' = Append(Tail(intervals),
                                        [closure EXCEPT !.currentStep = currentStep])
                 /\ UNCHANGED isMoving
  /\ UNCHANGED <<targetAngles, isConnected, mounted, connVars, timeouts,
                 uiBypassed, nInputs>>

\* the callback of the interval that is due first: one interpolation tick.
\* Intervals of one period fire in turn, so the one that ticked goes last.
IntervalTick ==
  /\ intervals /= <<>>
  /\ LET closure == Head(intervals)
         currentStep == closure.currentStep + 1
         t == StepFraction(currentStep)
     IN  /\ jointAngles' =
              Set(jointAngles,
                  [i \in DOMAIN jointAngles |->
                     Lerp(jointAngles[i], closure.targetAngles[i], t)])
         /\ IF IntervalDone(currentStep)
            THEN /\ intervals' = Tail(intervals)
                 /\ isMoving' = Set(isMoving, FALSE)
            ELSE /\ intervals' = Append(Tail(intervals),
                                        [closure EXCEPT !.currentStep = currentStep])
                 /\ UNCHANGED isMoving
  /\ UNCHANGED <<targetAngles, isConnected, mounted, connVars, timeouts,
                 uiBypassed, nInputs>>

(***************************************************************************)
(* The scene (App.js, createRobotArm and updateRobotPose).  A position is  *)
(* kept in hundredths of a unit; a rotation, an angle in radians, is kept  *)
(* as its ratio to pi.                                                     *)
(***************************************************************************)
\* (angle * Math.PI) / 180, as a multiple of pi
Radians(angle) == NumShift(NumMulInt(angle, Radix \div 180))

\* the quarter turns in a rotation that is a multiple of pi/2
QuarterTurns(rot) == NumMulInt(rot, 2).ip % 4

\* Math.cos and Math.sin, at the multiples of pi/2 (taken as exact)
Cos(rot) == CASE QuarterTurns(rot) = 0 -> 1
              [] QuarterTurns(rot) = 1 -> 0
              [] QuarterTurns(rot) = 2 -> -1
              [] QuarterTurns(rot) = 3 -> 0

Sin(rot) == CASE QuarterTurns(rot) = 0 -> 0
              [] QuarterTurns(rot) = 1 -> 1
              [] QuarterTurns(rot) = 2 -> 0
              [] QuarterTurns(rot) = 3 -> -1

\* Vector3.applyAxisAngle(new THREE.Vector3(0, 1, 0), rot)
applyAxisAngle(v, rot) ==
  [x |-> v.x * Cos(rot) + v.z * Sin(rot),
   y |-> v.y,
   z |-> v.z * Cos(rot) - v.x * Sin(rot)]

\* createRobotArm(scene): the base, link1..link6 and the effector, each at
\* its height on the vertical axis, none rotated
createRobotArm ==
  LET height == <<20, 100, 215, 315, 405, 485, 555, 610>>
  IN  [i \in 0..7 |->
         [position |-> [x |-> 0, y |-> height[i + 1], z |-> 0],
          rotation |-> [y |-> Num(0), z |-> Num(0)]]]

\* a mutant of PlaceRemaining: every part is put on the height its
\* predecessor had before the pass
PlaceRemainingStale(parts, i, angles) ==
  [k \in DOMAIN parts |->
     IF k < i THEN parts[k]
     ELSE [position |-> [parts[k].position EXCEPT
                           !.y = parts[k - 1].position.y + 60 + (8 - k) * 10],
           rotation |-> IF k < Len(angles)
                        THEN [parts[k].rotation EXCEPT !.z = Radians(angles[k + 1])]
                        ELSE parts[k].rotation]]

\* the loop of updateRobotPose, from part i on: for (let i = 3; ...).
\* jointAngles[i] of the source is angles[i + 1] here.
RECURSIVE PlaceRemaining(_, _, _)
PlaceRemaining(parts, i, angles) ==
  IF i > 7 THEN parts
  ELSE LET prevPart == parts[i - 1]
           offset == 60 + (8 - i) * 10
           placed == [parts EXCEPT ![i].position.y = prevPart.position.y + offset]
           turned == IF i < Len(angles)
                     THEN [placed EXCEPT ![i].rotation.z = Radians(angles[i + 1])]
                     ELSE placed
       IN  PlaceRemaining(turned, i + 1, angles)

\* updateRobotPose(), with jointAngles = angles
updateRobotPose(parts, angles) ==
  LET joint0Rot == Radians(angles[1])
      joint1Rot == Radians(angles[2])
      link1End == [x |-> 0, y |-> 100 + 120 * Cos(joint1Rot),
                   z |-> 120 * Sin(joint1Rot)]
      posed == [parts EXCEPT
                  ![0].rotation.y = joint0Rot,
                  ![1].rotation.z = joint1Rot,
                  ![1].position = applyAxisAngle([x |-> 0, y |-> 100, z |-> 0],
                                                 joint0Rot),
                  ![2].rotation.z = NumAdd(joint1Rot, Radians(angles[3])),
                  ![2].position = applyAxisAngle(link1End, joint0Rot)]
  IN  PlaceRemaining(posed, 3, angles)

\* the angles of the seven joints the scene is rendered with: joints 0 and 1
\* at right angles, where Math.cos and Math.sin are exact
PoseAngles ==
  { <<Num(j0), Num(j1), Num(j2), Num(j3), Num(0), Num(j5), Num(0)>> :
      j0 \in {0, 90}, j1 \in {0 - 90, 0, 90}, j2 \in {0, 45},
      j3 \in {0 - 45, 0}, j5 \in {0, 30} }

\* useState([0, 0, 0, 0, 0, 0, 0])
initialAngles == <<Num(0), Num(0), Num(0), Num(0), Num(0), Num(0), Num(0)>>

\* setJointAngles(angles), the render and the scene effect that follows it:
\* createRobotArm(scene), then animate() and its first updateRobotPose()
Render(angles) ==
  /\ mounted
  /\ jointAngles' = angles
  /\ robotParts' = updateRobotPose(createRobotArm, angles)
  /\ UNCHANGED <<targetAngles, isMoving, isConnected, mounted, connVars,
                 timeouts, intervals, uiBypassed, nInputs>>

\* animate(), the requestAnimationFrame callback: updateRobotPose() again
animate ==
  /\ mounted
  /\ robotParts' = updateRobotPose(robotParts, jointAngles)
  /\ UNCHANGED <<reactVars, mounted, connVars, timeouts, intervals,
                 uiBypassed, nInputs>>

(***************************************************************************)
(* The specification.                                                      *)
(***************************************************************************)
\* after the first render and the effect's first connectWebSocket()
Init ==
  /\ jointAngles = homePosition
  /\ targetAngles = homePosition
  /\ isMoving = FALSE
  /\ isConnected = FALSE
  /\ mounted = TRUE
  /\ reconnectTimeout = 0
  /\ retryTimers = {}
  /\ timerIds = 0
  /\ timeouts = 0
  /\ intervals = <<>>
  /\ uiBypassed = FALSE
  /\ nInputs = 0
  /\ robotParts = updateRobotPose(createRobotArm, initialAngles)
  /\ \E throws \in BOOLEAN :
       IF throws
       THEN sockets = <<>> /\ ws = 0 /\ wsRef = 0
       ELSE sockets = <<NewSocket>> /\ ws = 1 /\ wsRef = 1
  /\ last = [op |-> "mount", arg |-> <<>>, pre |-> Snapshot, command |-> "none",
             wasEdited |-> FALSE, edited |-> FALSE, reentered |-> FALSE]

\* every pending interval is within Window ticks of its start or of its end
Quiet ==
  \A k \in DOMAIN intervals :
     \/ intervals[k].currentStep < Window
     \/ intervals[k].currentStep >= steps - Window

Next ==
  \/ \E s \in DOMAIN sockets : Quiet /\ TransportOpen(s) /\ Step("open", s)
  \/ \E s \in DOMAIN sockets : \E frame \in BackendFrames :
       Quiet /\ TransportMessage(s, frame) /\ Step("message", frame)
  \/ \E s \in DOMAIN sockets : Quiet /\ TransportFail(s) /\ Step("fail", s)
  \/ \E s \in DOMAIN sockets : Quiet /\ TransportClosing(s) /\ Step("closing", s)
  \/ \E s \in DOMAIN sockets : Quiet /\ TransportClose(s) /\ Step("close", s)
  \/ \E t \in retryTimers : Quiet /\ RetryTimerFire(t) /\ Step("retry", t)
  \/ Quiet /\ Cleanup /\ Step("cleanup", <<>>)
  \/ \E index \in Joints : \E value \in SliderValues :
       Quiet /\ handleJointChange(index, value)
             /\ Step("handleJointChange", <<index, value>>)
  \/ \E position \in QuickPositions :
       Quiet /\ QuickPosition(position) /\ Step("quickPosition", position)
  \/ Quiet /\ moveToTarget /\ Step("moveToTarget", <<>>)
  \/ Quiet /\ resetRobot /\ Step("resetRobot", <<>>)
  \/ Quiet /\ CompletionTimeout /\ Step("timeout", <<>>)
  \/ IntervalTick /\ Step("tick", <<>>)

Spec == Init /\ [][Next]_vars

\* a remote move in progress: the state after the mount, the open event of
\* the first socket and moveToTarget(); the user's inputs are counted from here
MovingInit ==
  /\ jointAngles = homePosition
  /\ targetAngles = homePosition
  /\ isMoving = TRUE
  /\ isConnected = TRUE
  /\ mounted = TRUE
  /\ reconnectTimeout = 0
  /\ retryTimers = {}
  /\ timerIds = 0
  /\ timeouts = 1
  /\ intervals = <<>>
  /\ uiBypassed = FALSE
  /\ nInputs = 0
  /\ robotParts = updateRobotPose(createRobotArm, initialAngles)
  /\ ws = 1
  /\ wsRef = 1
  /\ LET opened == <<[NewSocket EXCEPT !.readyState = "OPEN"]>>
         asked == Send(opened, 1, JSONstringify([type |-> "get_state"]))
         moved == Send(asked, 1, JSONstringify([type |-> "move",
                                                angles |-> homePosition]))
     IN  /\ sockets = moved
         /\ last = [op |-> "moveToTarget", arg |-> <<>>,
                    pre |-> [Snapshot EXCEPT !.isMoving = FALSE, !.timeouts = 0,
                                             !.sockets = asked],
                    command |-> "moveToTarget",
                    wasEdited |-> FALSE, edited |-> FALSE, reentered |-> FALSE]

MovingSpec == MovingInit /\ [][Next]_vars

\* the scene of the seven-joint arm: after the first render and its scene
\* effect, with no socket created
PoseInit ==
  /\ jointAngles = initialAngles
  /\ targetAngles = initialAngles
  /\ isMoving = FALSE
  /\ isConnected = FALSE
  /\ mounted = TRUE
  /\ reconnectTimeout = 0
  /\ retryTimers = {}
  /\ timerIds = 0
  /\ timeouts = 0
  /\ intervals = <<>>
  /\ uiBypassed = FALSE
  /\ nInputs = 0
  /\ sockets = <<>>
  /\ ws = 0
  /\ wsRef = 0
  /\ robotParts = updateRobotPose(createRobotArm, initialAngles)
  /\ last = [op |-> "mount", arg |-> <<>>, pre |-> Snapshot, command |-> "none",
             wasEdited |-> FALSE, edited |-> FALSE, reentered |-> FALSE]

PoseNext ==
  \/ \E angles \in PoseAngles : Render(angles) /\ Record("render", angles)
  \/ animate /\ Record("animate", <<>>)

PoseSpec == PoseInit /\ [][PoseNext]_vars

\* timers fire: a completion timeout that is pending runs its callback, and
\* an interval that is pending runs its next tick
\* The tick is enabled exactly when an interval is pending, so its weak
\* fairness is written out: it is disabled again and again, or taken again
\* and again.
FairSpec ==
  /\ Spec
  /\ WF_vars(Quiet /\ CompletionTimeout /\ Step("timeout", <<>>))
  /\ \/ []<>(intervals = <<>>)
     \/ []<><<IntervalTick /\ Step("tick", <<>>)>>_vars

(***************************************************************************)
(* Properties.  Each is stated over the state and the step that led to it. *)
(***************************************************************************)
pre == last.pre

PreOpen == pre.wsRef /= 0 /\ pre.sockets[pre.wsRef].readyState = "OPEN"

IsJointState(frame) == frame[1] = "json" /\ frame[2].type = "joint_state"

IsMove(frame) == frame[1] = "json" /\ frame[2].type = "move"

MoveFrame(angles) == <<"json", [type |-> "move", angles |-> angles]>>

GetStateFrame == <<"json", [type |-> "get_state"]>>

SentBefore(s) == IF s \in DOMAIN pre.sockets THEN pre.sockets[s].sent ELSE <<>>

\* C1: moveToTarget() called while isMoving changes nothing: no further move
\* message, completion timeout or interval, and the connection as it was.
C1_ReentrantMoveIgnored ==
  (last.op = "moveToTarget" /\ pre.isMoving) =>
     /\ sockets = pre.sockets
     /\ timeouts = pre.timeouts
     /\ intervals = pre.intervals
     /\ isConnected = pre.isConnected
     /\ retryTimers = pre.retryTimers

\* C2: handleJointChange(index, value) with the value below the joint's min
\* stores min, and with the value above its max stores max.
C2_EditClamped ==
  last.op = "handleJointChange" =>
     LET index == last.arg[1]
         v == parseFloat(last.arg[2])
         lim == jointLimits[index]
     IN  /\ v.ip < lim.min => targetAngles[index] = Num(lim.min)
         /\ (v.ip > lim.max \/ (v.ip = lim.max /\ v.fr /= <<>>)) =>
               targetAngles[index] = Num(lim.max)

\* C3: at most one reconnect timeout is pending, and the close of a session
\* (by failure or not) leaves exactly one pending: a new one, with none of
\* those pending before.
C3_OneRetryTimer ==
  /\ Cardinality(retryTimers) <= 1
  /\ (last.op \in {"fail", "close"} /\ pre.mounted) =>
        /\ retryTimers = {reconnectTimeout}
        /\ reconnectTimeout \notin 0..pre.timerIds
        /\ timerIds = pre.timerIds + 1

C3_Witness ==
  /\ last.op = "fail"
  /\ pre.mounted
  /\ last.arg = 2
  /\ retryTimers = {2}

\* C4: a move message is transmitted only by a command issued while the
\* socket of wsRef is OPEN, on that socket; a command issued while it is not
\* OPEN transmits nothing, and no later step transmits a move for it.
C4_MoveOnlyWhenOpen ==
  /\ \A s \in DOMAIN sockets :
       /\ Len(sockets[s].sent) >= Len(SentBefore(s))
       /\ \A k \in (Len(SentBefore(s)) + 1)..Len(sockets[s].sent) :
            IsMove(sockets[s].sent[k]) =>
               /\ last.op \in {"moveToTarget", "resetRobot"}
               /\ PreOpen
               /\ s = pre.wsRef
  /\ (last.op \in {"moveToTarget", "resetRobot"} /\ ~PreOpen) =>
        sockets = pre.sockets

C4_Witness ==
  /\ last.op = "open"
  /\ intervals /= <<>>
  /\ sockets[last.arg].readyState = "OPEN"
  /\ sockets[last.arg].sent = <<GetStateFrame>>

\* C5: moveToTarget() called while not moving and with the socket OPEN sets
\* isMoving, transmits one move message carrying targetAngles as they are,
\* one angle per joint, and arms one completion timeout and no interval; a
\* completion timeout that fires clears isMoving.
C5_RemoteMove ==
  /\ (last.op = "moveToTarget" /\ ~pre.isMoving /\ PreOpen) =>
        /\ isMoving
        /\ sockets = [pre.sockets EXCEPT
                        ![pre.wsRef].sent = Append(@, MoveFrame(pre.targetAngles))]
        /\ Len(pre.targetAngles) = NumJoints
        /\ timeouts = pre.timeouts + 1
        /\ intervals = pre.intervals
  /\ (last.op = "timeout" /\ pre.mounted) =>
        /\ ~isMoving
        /\ timeouts = pre.timeouts - 1

C5_Witness ==
  /\ last.op = "timeout"
  /\ pre.isMoving
  /\ ~isMoving
  /\ timeouts = 0
  /\ targetAngles /= homePosition
  /\ \E s \in DOMAIN sockets :
       sockets[s].sent = <<GetStateFrame, MoveFrame(targetAngles)>>

\* C6: moveToTarget() called while not moving and with the socket not OPEN
\* sets isMoving and starts one interval at step 0 toward targetAngles; every
\* tick raises the interval's step by one and moves each angle by the
\* fraction step/steps of its distance to the goal; ticks 1..29 keep the
\* interval and isMoving, tick 30 ends the interval and clears isMoving, so
\* no interval is ever pending at step 30 or beyond; and as long as no
\* handler ran while its control was disabled, isMoving holds while an
\* interval is pending.
C6_LocalInterpolation ==
  /\ (last.op = "moveToTarget" /\ ~pre.isMoving /\ ~PreOpen) =>
        /\ isMoving
        /\ intervals = Append(pre.intervals,
                              [currentStep |-> 0, targetAngles |-> pre.targetAngles])
        /\ sockets = pre.sockets
        /\ timeouts = pre.timeouts
  /\ \A k \in DOMAIN intervals : intervals[k].currentStep \in 0..(steps - 1)
  /\ last.op = "tick" =>
        LET closure == Head(pre.intervals)
            step == closure.currentStep + 1
        IN  /\ pre.mounted =>
                 /\ DOMAIN jointAngles = DOMAIN pre.jointAngles
                 /\ \A i \in DOMAIN jointAngles :
                      NumMulInt(jointAngles[i], steps) =
                        NumAdd(NumMulInt(pre.jointAngles[i], steps - step),
                               NumMulInt(closure.targetAngles[i], step))
            /\ IF step < steps
               THEN /\ intervals = Append(Tail(pre.intervals),
                                          [closure EXCEPT !.currentStep = step])
                    /\ isMoving = pre.isMoving
               ELSE /\ intervals = Tail(pre.intervals)
                    /\ pre.mounted => ~isMoving
  /\ (~uiBypassed /\ mounted /\ intervals /= <<>>) => isMoving

C6_Witness ==
  /\ last.op = "tick"
  /\ Head(pre.intervals).currentStep = steps - 1
  /\ ~uiBypassed
  /\ pre.isMoving
  /\ ~isMoving
  /\ intervals = <<>>

\* C7: the 30th tick of an interval leaves every angle equal to the goal of
\* that interval, whatever the angles were.
C7_Converges ==
  (last.op = "tick" /\ pre.mounted /\ Head(pre.intervals).currentStep + 1 = steps) =>
     \A i \in DOMAIN jointAngles :
        jointAngles[i] = Head(pre.intervals).targetAngles[i]

C7_Witness ==
  /\ last.op = "tick"
  /\ pre.mounted
  /\ Head(pre.intervals).currentStep + 1 = steps
  /\ Head(pre.intervals).targetAngles /= homePosition
  /\ pre.jointAngles /= jointAngles
  /\ jointAngles = Head(pre.intervals).targetAngles

\* C8: a joint_state frame with one angle per joint makes jointAngles those
\* angles and leaves targetAngles as they were.
C8_JointStateApplied ==
  (/\ last.op = "message"
   /\ pre.mounted
   /\ IsJointState(last.arg)
   /\ Len(last.arg[2].angles) = NumJoints) =>
     /\ jointAngles = last.arg[2].angles
     /\ targetAngles = pre.targetAngles

C8_Witness ==
  /\ last.op = "message"
  /\ IsJointState(last.arg)
  /\ Len(last.arg[2].angles) = NumJoints
  /\ pre.isMoving
  /\ pre.jointAngles /= jointAngles
  /\ jointAngles = last.arg[2].angles

\* C9: a frame that is not JSON, or whose type is not joint_state, changes
\* nothing: the angles, the flags, the sockets and the timers are as before.
C9_OtherFrameDropped ==
  (last.op = "message" /\ ~IsJointState(last.arg)) => Snapshot = pre

C9_Witness ==
  /\ last.op = "message"
  /\ last.arg[1] = "text"
  /\ jointAngles /= homePosition
  /\ isConnected
  /\ sockets[wsRef].readyState = "OPEN"

\* C10: once the cleanup has run, no reconnect timeout is pending, none
\* fires, and no socket is created.
C10_NoReconnectAfterCleanup ==
  ~mounted =>
     /\ retryTimers = {}
     /\ last.op /= "retry"
     /\ last.op /= "cleanup" => Len(sockets) = Len(pre.sockets)

C10_Witness ==
  /\ ~mounted
  /\ last.op = "close"
  /\ pre.sockets[last.arg].readyState = "CLOSING"
  /\ timerIds = 1
  /\ retryTimers = {}

\* the sessions that are CONNECTING or OPEN
LiveSockets(socks) ==
  {s \in DOMAIN socks : socks[s].readyState \in {"CONNECTING", "OPEN"}}

\* C11: while the component is mounted, every failure of a session or of a
\* connection attempt is followed by a new attempt: after the failure a
\* session is CONNECTING or OPEN or a reconnect timeout is pending (nothing
\* but that timeout starts an attempt), however many attempts came before.
C11_RetryFollowsFailure ==
  (mounted /\ last.op \in {"fail", "close", "retry"} /\ LiveSockets(sockets) = {}) =>
     retryTimers /= {}

\* C12: at most one session is CONNECTING or OPEN, and connectWebSocket()
\* creates a session only when none is CONNECTING or OPEN.
C12_OneLiveSession ==
  /\ Cardinality(LiveSockets(sockets)) <= 1
  /\ Len(sockets) > Len(pre.sockets) =>
        /\ last.op = "retry"
        /\ LiveSockets(pre.sockets) = {}
        /\ Len(sockets) = Len(pre.sockets) + 1

C12_Witness ==
  /\ last.op = "retry"
  /\ Len(sockets) = 2
  /\ sockets[1].readyState = "CLOSED"
  /\ sockets[2].readyState = "CONNECTING"
  /\ wsRef = 2

\* C13: the open event of a session sets isConnected and sends one get_state
\* on that session, its first frame, and nothing on any other session.
C13_OpenSendsGetState ==
  last.op = "open" =>
     /\ isConnected
     /\ sockets[last.arg].readyState = "OPEN"
     /\ pre.sockets[last.arg].sent = <<>>
     /\ sockets[last.arg].sent = <<GetStateFrame>>
     /\ \A s \in DOMAIN sockets : s /= last.arg => sockets[s] = pre.sockets[s]

C13_Witness ==
  /\ last.op = "open"
  /\ last.arg = 2
  /\ ~pre.isConnected
  /\ isConnected
  /\ sockets[1].sent /= <<>>
  /\ sockets[2].sent = <<GetStateFrame>>

AllZero == [j \in Joints |-> Num(0)]

\* C14: resetRobot() called while not moving does what moveToTarget() does
\* with the all-zero goal: it sets isMoving; with the socket OPEN it sends one
\* move message with all-zero angles and arms one completion timeout; with
\* the socket not OPEN it starts the 30-step interval toward all-zero and
\* leaves the angles to its ticks.
C14_ResetIsMoveToZero ==
  (last.op = "resetRobot" /\ ~pre.isMoving) =>
     /\ isMoving
     /\ PreOpen =>
          /\ sockets = [pre.sockets EXCEPT
                          ![pre.wsRef].sent = Append(@, MoveFrame(AllZero))]
          /\ timeouts = pre.timeouts + 1
          /\ intervals = pre.intervals
     /\ ~PreOpen =>
          /\ intervals = Append(pre.intervals,
                                [currentStep |-> 0, targetAngles |-> AllZero])
          /\ jointAngles = pre.jointAngles
          /\ sockets = pre.sockets
          /\ timeouts = pre.timeouts

\* C15: resetRobot() leaves every component of targetAngles at zero, with the
\* socket OPEN or not.
C15_ResetZeroesTarget ==
  last.op = "resetRobot" => targetAngles = AllZero

C15_Witness ==
  /\ last.op = "resetRobot"
  /\ PreOpen
  /\ pre.targetAngles[1] = Num(200)
  /\ targetAngles = AllZero
  /\ jointAngles = AllZero

\* C16: once a resetRobot() called while not moving has completed (at once
\* with the socket not OPEN, when its completion timeout fires with the socket
\* OPEN), jointAngles and targetAngles are both all-zero.  The remote case is
\* stated for runs in which no handler ran while its control was disabled
\* and every joint_state received had one angle per joint.
C16_ResetEndsAllZero ==
  /\ (last.op = "resetRobot" /\ ~pre.isMoving /\ ~PreOpen) =>
        (jointAngles = AllZero /\ targetAngles = AllZero)
  /\ (/\ last.op = "timeout"
      /\ last.command = "resetRobot"
      /\ pre.mounted
      /\ ~uiBypassed
      /\ Len(jointAngles) = NumJoints) =>
        (jointAngles = AllZero /\ targetAngles = AllZero)

\* C17: the failure or close of a session leaves the completion timeouts, the
\* intervals and isMoving as they were, and a completion timeout that fires
\* after the session is gone still clears isMoving and starts no interval.
C17_DropKeepsCompletion ==
  /\ last.op \in {"fail", "close"} =>
        /\ timeouts = pre.timeouts
        /\ intervals = pre.intervals
        /\ isMoving = pre.isMoving
  /\ (last.op = "timeout" /\ pre.mounted /\ ~PreOpen) =>
        /\ ~isMoving
        /\ timeouts = pre.timeouts - 1
        /\ intervals = pre.intervals

C17_Witness ==
  /\ last.op = "timeout"
  /\ pre.mounted
  /\ pre.isMoving
  /\ ~isMoving
  /\ intervals = <<>>
  /\ timeouts = 0
  /\ \E s \in DOMAIN sockets :
       /\ sockets[s].readyState = "CLOSED"
       /\ sockets[s].sent /= <<>>
       /\ IsMove(sockets[s].sent[Len(sockets[s].sent)])

\* C18: jointAngles always has one angle per joint: a joint_state frame whose
\* angles are not one per joint leaves jointAngles as they were.
C18_WrongLengthRejected ==
  /\ Len(jointAngles) = NumJoints
  /\ (/\ last.op = "message"
      /\ IsJointState(last.arg)
      /\ Len(last.arg[2].angles) /= NumJoints) => jointAngles = pre.jointAngles

C20_CleanupCancelsCompletion ==
  last.op = "timeout" => pre.mounted

\* connectWebSocket() threw: no socket came of it
CreationFailed ==
  \/ last.op = "mount" /\ sockets = <<>>
  \/ last.op = "retry" /\ Len(sockets) = Len(pre.sockets)

\* C21: after each kind of failure while mounted (an error event, a close, a
\* connectWebSocket() that threw) the connection is marked not connected and
\* one reconnect timeout is pending.
C21_FailureSchedulesRetry ==
  /\ (last.op \in {"fail", "close"} /\ pre.mounted) =>
        (~isConnected /\ Cardinality(retryTimers) = 1)
  /\ (CreationFailed /\ mounted) =>
        (~isConnected /\ Cardinality(retryTimers) = 1)

\* C22: an interval, once started, is ended by its own 30th tick and by
\* nothing else: a step that is no tick leaves the pending intervals as they
\* were (a moveToTarget() may add one), a tick below 30 keeps its interval
\* and the 30th removes it, also once the socket is OPEN; and a
\* moveToTarget() with the socket OPEN sends a move message and starts no
\* interval.
C22_InterpolationNotPreempted ==
  /\ last.op /= "tick" =>
        /\ Len(intervals) >= Len(pre.intervals)
        /\ SubSeq(intervals, 1, Len(pre.intervals)) = pre.intervals
        /\ Len(intervals) > Len(pre.intervals) =>
              (last.op = "moveToTarget" /\ ~PreOpen)
  /\ last.op = "tick" =>
        LET closure == Head(pre.intervals)
        IN  IF closure.currentStep + 1 < steps
            THEN intervals = Append(Tail(pre.intervals),
                                    [closure EXCEPT !.currentStep = @ + 1])
            ELSE intervals = Tail(pre.intervals)
  /\ (last.op = "moveToTarget" /\ PreOpen) =>
        /\ intervals = pre.intervals
        /\ sockets = [pre.sockets EXCEPT
                        ![pre.wsRef].sent = Append(@, MoveFrame(pre.targetAngles))]

C22_Witness ==
  /\ last.op = "tick"
  /\ Head(pre.intervals).currentStep = steps - 1
  /\ intervals = <<>>
  /\ PreOpen
  /\ isConnected
  /\ ~isMoving

\* new is prev moved by step/steps of its distance to goal
SteppedToward(prev, new, goal, step) ==
  NumMulInt(NumSub(new, prev), steps) = NumMulInt(NumSub(goal, prev), step)

\* C24: the goal of a move is targetAngles as they are when moveToTarget() is
\* called: the move message carries them, the interval's closure holds them,
\* an edit of the target changes neither the messages sent nor the pending
\* intervals, and every tick steps toward the goal of its closure whatever
\* targetAngles have become.
C24_GoalCaptured ==
  /\ last.op \in {"handleJointChange", "quickPosition"} =>
        (intervals = pre.intervals /\ sockets = pre.sockets)
  /\ (last.op = "moveToTarget" /\ PreOpen) =>
        LET sent == sockets[pre.wsRef].sent
        IN  sent /= <<>> /\ sent[Len(sent)] = MoveFrame(pre.targetAngles)
  /\ (last.op = "moveToTarget" /\ ~PreOpen) =>
        (intervals /= <<>> /\
         intervals[Len(intervals)].targetAngles = pre.targetAngles)
  /\ last.op = "tick" =>
        LET closure == Head(pre.intervals)
        IN  /\ pre.mounted =>
                 \A i \in DOMAIN jointAngles :
                    SteppedToward(pre.jointAngles[i], jointAngles[i],
                                  closure.targetAngles[i], closure.currentStep + 1)
            /\ \A k \in DOMAIN intervals :
                  \E j \in DOMAIN pre.intervals :
                    intervals[k].targetAngles = pre.intervals[j].targetAngles

C24_Witness ==
  /\ last.op = "tick"
  /\ pre.mounted
  /\ Head(pre.intervals).currentStep + 1 = steps
  /\ targetAngles /= Head(pre.intervals).targetAngles
  /\ jointAngles = Head(pre.intervals).targetAngles

\* C26: a frame received leaves isMoving and the completion timeouts as they
\* were; isMoving is cleared only by a completion timeout or a tick, and by
\* a completion timeout when no interval is pending; the completion timeout
\* clears it whatever the angles are, reported or not.
C26_OnlyTimerEndsRemoteMove ==
  /\ last.op = "message" => (isMoving = pre.isMoving /\ timeouts = pre.timeouts)
  /\ (pre.isMoving /\ ~isMoving) => last.op \in {"timeout", "tick"}
  /\ (pre.isMoving /\ ~isMoving /\ pre.intervals = <<>>) => last.op = "timeout"
  /\ (last.op = "timeout" /\ pre.mounted) => ~isMoving

C26_Witness ==
  /\ last.op = "timeout"
  /\ pre.isMoving
  /\ ~isMoving
  /\ pre.intervals = <<>>
  /\ Len(jointAngles) = NumJoints
  /\ jointAngles /= targetAngles

\* C27: the open, error and close events, the reconnect timeout and a
\* connectWebSocket() that throws leave jointAngles, targetAngles, isMoving,
\* the completion timeouts and the intervals as they were.
C27_TransportLeavesMotion ==
  last.op \in {"open", "fail", "close", "retry"} =>
     /\ jointAngles = pre.jointAngles
     /\ targetAngles = pre.targetAngles
     /\ isMoving = pre.isMoving
     /\ timeouts = pre.timeouts
     /\ intervals = pre.intervals

C27_Witness ==
  /\ CreationFailed
  /\ last.op = "retry"
  /\ isMoving
  /\ intervals /= <<>>

\* C28: a tick at step k takes every angle from its value right before the
\* tick: the new angle is that value moved by k/30 of its distance to the goal.
C28_TickFromPriorCurrent ==
  (last.op = "tick" /\ pre.mounted) =>
     /\ DOMAIN jointAngles = DOMAIN pre.jointAngles
     /\ \A i \in DOMAIN jointAngles :
          SteppedToward(pre.jointAngles[i], jointAngles[i],
                        Head(pre.intervals).targetAngles[i],
                        Head(pre.intervals).currentStep + 1)

C28_Witness ==
  /\ last.op = "tick"
  /\ pre.mounted
  /\ Head(pre.intervals).currentStep = 0
  /\ Head(pre.intervals).targetAngles = AllZero
  /\ pre.jointAngles = [j \in Joints |-> Num(10 * j)]
  /\ jointAngles /= pre.jointAngles
  /\ jointAngles /= AllZero

\* C29: handleJointChange(index, value) changes targetAngles at index only:
\* the other components are as they were right before it, and jointAngles,
\* isMoving, the connection and the timers are untouched.
C29_EditWritesOneComponent ==
  last.op = "handleJointChange" =>
     /\ DOMAIN targetAngles = DOMAIN pre.targetAngles
     /\ \A j \in DOMAIN targetAngles :
          j /= last.arg[1] => targetAngles[j] = pre.targetAngles[j]
     /\ [pre EXCEPT !.targetAngles = targetAngles] = Snapshot

C29_Witness ==
  /\ last.op = "handleJointChange"
  /\ last.arg[1] = 2
  /\ pre.targetAngles = <<Num(200), Num(0)>>
  /\ targetAngles = <<Num(200), Num(0 - 200)>>

\* C23: an edit of the target made while isMoving is stored and sends
\* nothing; and once the target has been edited during a move, a
\* moveToTarget() issued before isMoving has fallen sends no move message.
C23_EditNotForwarded ==
  /\ (last.op \in {"handleJointChange", "quickPosition"} /\ pre.isMoving) =>
        /\ sockets = pre.sockets
        /\ last.op = "handleJointChange" =>
              targetAngles[last.arg[1]] = parseFloat(last.arg[2])
        /\ last.op = "quickPosition" => targetAngles = last.arg
  /\ (last.op = "moveToTarget" /\ last.wasEdited) => sockets = pre.sockets

\* the state MovingInit starts from, as Spec reaches it
MovingInitReached ==
  /\ last.op = "moveToTarget"
  /\ last.pre = [Snapshot EXCEPT !.isMoving = FALSE, !.timeouts = 0,
                                 !.sockets = pre.sockets]
  /\ Len(pre.sockets) = 1
  /\ pre.sockets[1] = [NewSocket EXCEPT !.readyState = "OPEN",
                                        !.sent = <<GetStateFrame>>]
  /\ sockets = <<[pre.sockets[1] EXCEPT !.sent = Append(@, MoveFrame(homePosition))]>>
  /\ jointAngles = homePosition
  /\ targetAngles = homePosition
  /\ isMoving /\ isConnected /\ mounted /\ ~uiBypassed
  /\ reconnectTimeout = 0 /\ retryTimers = {} /\ timerIds = 0
  /\ timeouts = 1 /\ intervals = <<>>
  /\ ws = 1 /\ wsRef = 1

\* C25: isMoving rises only by moveToTarget() or resetRobot(), and, the
\* timers firing, whenever isMoving is true of the mounted component it is
\* false again later.
C25_MovingEndsIdle ==
  /\ []((~pre.isMoving /\ isMoving) => last.op \in {"moveToTarget", "resetRobot"})
  /\ (isMoving ~> (~isMoving \/ ~mounted))

C25_Witness ==
  /\ last.op = "tick"
  /\ last.command = "moveToTarget"
  /\ pre.isMoving
  /\ ~isMoving
  /\ mounted
  /\ timeouts = 0
  /\ intervals = <<>>

\* the height of part i above part i - 1: 0.6 + (8 - i) * 0.1
Offset(i) == 60 + (8 - i) * 10

\* C30: after a pass of updateRobotPose() every part i from 3 on stands on
\* the vertical axis, at the height part i - 1 has after the same pass plus
\* the offset of i, and the rotation of links 3 to 6 is their own joint
\* angle (the effector, which has no joint angle, is not rotated).
C30_StackedPlacement ==
  last.op \in {"render", "animate"} =>
     /\ \A i \in 3..7 :
          /\ robotParts[i].position.y = robotParts[i - 1].position.y + Offset(i)
          /\ robotParts[i].position.x = 0
          /\ robotParts[i].position.z = 0
          /\ robotParts[i].rotation.y = Num(0)
     /\ \A i \in 3..6 : robotParts[i].rotation.z = Radians(jointAngles[i + 1])
     /\ robotParts[7].rotation.z = Num(0)

C30_Witness ==
  /\ last.op = "render"
  /\ jointAngles[2] = Num(90)
  /\ jointAngles[3] = Num(45)
  /\ jointAngles[4] = Num(0 - 45)
  /\ robotParts[2].position.y = 100
  /\ robotParts[2].rotation.z = Radians(Num(135))
  /\ robotParts[3].position.y = 210
  /\ robotParts[3].rotation.z = Radians(Num(0 - 45))
  /\ robotParts[7].position.y = 550

\* C31: on every socket the first frame sent is get_state: a move frame is
\* never the first, and the frames sent before a move frame include get_state.
C31_GetStateFirst ==
  \A s \in DOMAIN sockets :
     /\ sockets[s].sent /= <<>> => sockets[s].sent[1] = GetStateFrame
     /\ \A k \in DOMAIN sockets[s].sent :
          IsMove(sockets[s].sent[k]) =>
             \E j \in 1..(k - 1) : sockets[s].sent[j] = GetStateFrame

C31_Witness ==
  /\ last.op = "moveToTarget"
  /\ PreOpen
  /\ pre.sockets[pre.wsRef].sent = <<GetStateFrame>>
  /\ sockets[pre.wsRef].sent = <<GetStateFrame, MoveFrame(pre.targetAngles)>>
  /\ pre.wsRef = 2

\* C32: the 30th tick of an interval leaves jointAngles equal to the goal of
\* that interval, also when a joint_state frame has replaced jointAngles
\* between two of its ticks.
C32_OverwriteStillConverges ==
  (/\ last.op = "tick"
   /\ pre.mounted
   /\ Head(pre.intervals).currentStep + 1 = steps) =>
     jointAngles = Head(pre.intervals).targetAngles

\* the same with jointAngles having one angle per joint before the tick
ConvergesFromFullVector ==
  (/\ last.op = "tick"
   /\ pre.mounted
   /\ Head(pre.intervals).currentStep + 1 = steps
   /\ Len(pre.jointAngles) = NumJoints) =>
     jointAngles = Head(pre.intervals).targetAngles

\* a full joint_state frame arrived before the last tick of an interval
OverwrittenThenConverged ==
  /\ last.op = "tick"
  /\ pre.mounted
  /\ Head(pre.intervals).currentStep + 1 = steps
  /\ pre.jointAngles = [j \in Joints |-> Num(10 * j)]
  /\ Head(pre.intervals).targetAngles = AllZero
  /\ jointAngles = AllZero

\* C33: while a reconnect timeout is pending no socket is CONNECTING or OPEN.
C33_RetryOnlyWithoutSession ==
  retryTimers /= {} =>
     \A s \in DOMAIN sockets : sockets[s].readyState \notin {"CONNECTING", "OPEN"}

C33_Witness ==
  /\ last.op = "close"
  /\ pre.sockets[last.arg].readyState = "OPEN"
  /\ pre.retryTimers = {}
  /\ Cardinality(retryTimers) = 1
  /\ Len(sockets) = 2
  /\ \A s \in DOMAIN sockets : sockets[s].readyState = "CLOSED"

\* C34: moveToTarget() and resetRobot() called with the socket OPEN leave
\* jointAngles as they were, moveToTarget() leaves targetAngles as they were
\* on both branches, and while no interval is pending jointAngles change
\* only by a frame received (or by resetRobot() with the socket not OPEN).
C34_RemoteLeavesCurrent ==
  /\ (last.op \in {"moveToTarget", "resetRobot"} /\ PreOpen) =>
        jointAngles = pre.jointAngles
  /\ last.op = "moveToTarget" => targetAngles = pre.targetAngles
  /\ (jointAngles /= pre.jointAngles /\ pre.intervals = <<>>) =>
        \/ last.op = "message" /\ IsJointState(last.arg)
        \/ last.op = "resetRobot" /\ ~PreOpen

C34_Witness ==
  /\ last.op = "resetRobot"
  /\ PreOpen
  /\ pre.jointAngles = [j \in Joints |-> Num(10 * j)]
  /\ jointAngles = pre.jointAngles
  /\ targetAngles = AllZero
  /\ isMoving
  /\ timeouts = 1

\* C35: as long as no command has been issued while isMoving, at most one
\* completion timeout or interval is pending, and the mounted component has
\* isMoving exactly when one is.
C35_OneMotionTimer ==
  ~last.reentered =>
     /\ timeouts + Len(intervals) <= 1
     /\ mounted => (isMoving <=> timeouts + Len(intervals) = 1)

C35_Witness ==
  /\ last.op = "handleJointChange"
  /\ ~last.reentered
  /\ last.edited
  /\ mounted
  /\ isMoving
  /\ timeouts = 0
  /\ Len(intervals) = 1

\* C36: moveToTarget() that sends the move and arms the completion timeout
\* (the remote branch) is called with isConnected true, and moveToTarget()
\* that starts an interval (the local branch) with isConnected false.
C36_IndicatorAgreesWithPath ==
  last.op = "moveToTarget" =>
     /\ timeouts = pre.timeouts + 1 => pre.isConnected
     /\ Len(intervals) = Len(pre.intervals) + 1 => ~pre.isConnected

====
